---- MODULE Spec2Model ----
(***************************************************************************)
(* AutoCommandBufferBuilder (vulkano, src/command_buffer/auto.rs): the     *)
(* recording-time state machine of a command buffer builder.  The model    *)
(* keeps the builder's fields, the sequence of commands handed to the      *)
(* inner SyncCommandBufferBuilder, and the value returned by the last call.*)
(***************************************************************************)
EXTENDS Integers, Sequences, FiniteSets, TLC

\* ---------------------------------------------------------------- bounds
\* Number of calls made on one builder, in Spec and SpecSecondary.
MaxCalls == 2
\* Number of calls made on one builder in SpecPass.
MaxPassCalls == 6
\* Number of calls made on one builder in SpecCache.
MaxCacheCalls == 4
\* Largest num_subpasses() of a framebuffer handed to begin_render_pass.
MaxSubpasses == 3
\* Number of calls made on one builder in SpecDynamic.
MaxDynamicCalls == 3
\* Number of calls made on one builder in SpecRecord.
MaxRecordCalls == 4

\* usize is Option<usize>'s payload; TLC's integers are 32 bits wide, so the
\* narrowest usize Rust has (16 bits) stands for it.
UsizeBits == 16
UsizeModulus == 2 ^ UsizeBits

\* ------------------------------------------------------------ Option<T>
None == <<>>
Some(x) == <<x>>
is_some(o) == o # None
is_none(o) == o = None
unwrap(o) == o[1]

\* ----------------------------------------------------------- input sets
\* Identities of the pipelines, buffers and values the caller passes in.
Pipelines == {"p1", "p2"}
IndexBuffers == {"ib1", "ib2"}
IndexTypes == {"U16", "U32"}
Sizes == {64, 100}
SubpassCounts == 0 .. MaxSubpasses
DynValues == {"a", "b"}
DynField == {None} \cup {Some(v) : v \in DynValues}
DynamicStates == [line_width : DynField, viewports : DynField, scissors : DynField]
\* DynamicState::none()
NoDynamicState == [line_width |-> None, viewports |-> None, scissors |-> None]
\* Nothing set, or every field set to the same value.
UniformDynamicStates ==
    {d \in DynamicStates : d.line_width = d.viewports /\ d.viewports = d.scissors}
\* PipelineLayoutAbstract::num_push_constants_ranges of each pipeline
num_push_constants_ranges(p) == IF p = "p1" THEN 0 ELSE 2
\* (first_layer, num_layers, first_mipmap, num_mipmaps) of a clear, and the
\* image's own (0, array_layers, 0, mipmap_levels)
Image == [array_layers |-> 2, mipmap_levels |-> 2, dims |-> 4]
ClearRegions ==
    {[first_layer |-> 0, num_layers |-> 1, first_mipmap |-> 1, num_mipmaps |-> 1]}
\* offset, size, first_layer, num_layers, mipmap of a buffer-to-image copy, and
\* the image's own ([0, 0, 0], dims, 0, 1, 0); one number stands for [u32; 3]
CopyRegions ==
    {[offset |-> 1, size |-> 2, first_layer |-> 1, num_layers |-> 1, mipmap |-> 1]}
\* format::ClearValue
ClearValues == {"None", "Float", "Int", "Uint", "Depth", "Stencil", "DepthStencil"}

VARIABLES
    inner,                \* commands appended to the SyncCommandBufferBuilder
    state_cacher,         \* StateCacher
    subpasses_remaining,  \* Option<usize>
    secondary_cb,         \* bool
    subpass_secondary,    \* bool
    phase,                \* who owns the builder: "Recording", "Dropped", "Built", "Panicked"
    last,                 \* the last call: operation, arguments, returned value
    calls                 \* number of calls made

vars == <<inner, state_cacher, subpasses_remaining, secondary_cb, subpass_secondary,
          phase, last, calls>>

builder == <<inner, state_cacher, subpasses_remaining, secondary_cb, subpass_secondary>>

\* ----------------------------------------------------------- StateCacher
StateCacher_new ==
    [graphics_pipeline |-> None, compute_pipeline |-> None, index_buffer |-> None,
     dynamic_state |-> [line_width |-> None, viewports |-> None, scissors |-> None]]

\* StateCacherOutcome of bind_graphics_pipeline / bind_compute_pipeline / bind_index_buffer
Outcome(cached, incoming) ==
    IF cached = Some(incoming) THEN "AlreadyOk" ELSE "NeedChange"

bind_graphics_pipeline(sc, p) == [sc EXCEPT !.graphics_pipeline = Some(p)]
bind_compute_pipeline(sc, p) == [sc EXCEPT !.compute_pipeline = Some(p)]
bind_index_buffer(sc, ib, ty) == [sc EXCEPT !.index_buffer = Some(<<ib, ty>>)]

\* StateCacher::dynamic_state: the fields of `incoming` that differ from the cache
FilterField(cached, incoming) ==
    IF is_some(incoming) /\ cached # incoming THEN incoming ELSE None
dynamic_state_delta(sc, incoming) ==
    [line_width |-> FilterField(sc.dynamic_state.line_width, incoming.line_width),
     viewports |-> FilterField(sc.dynamic_state.viewports, incoming.viewports),
     scissors |-> FilterField(sc.dynamic_state.scissors, incoming.scissors)]
MergeField(cached, incoming) ==
    IF is_some(incoming) THEN incoming ELSE cached
dynamic_state_cache(sc, incoming) ==
    [sc EXCEPT !.dynamic_state =
        [line_width |-> MergeField(sc.dynamic_state.line_width, incoming.line_width),
         viewports |-> MergeField(sc.dynamic_state.viewports, incoming.viewports),
         scissors |-> MergeField(sc.dynamic_state.scissors, incoming.scissors)]]

\* ------------------------------------------------------------ the result
Returns(op, args, res, ph) ==
    /\ last' = [op |-> op, args |-> args, res |-> res, from |-> Len(inner)]
    /\ phase' = ph
    /\ calls' = calls + 1

\* Ok(self)
Ok(op, args) == Returns(op, args, "Ok", "Recording")
\* Err(e) after the builder was changed: self is dropped
Err(op, args, e) == Returns(op, args, e, "Dropped")
\* an early return Err(e): nothing was changed, self is dropped
Reject(op, args, e) == Err(op, args, e) /\ UNCHANGED builder
\* panic!(), unimplemented!(), a failed debug_assert
Panic(op, args) == Returns(op, args, "Panic", "Panicked") /\ UNCHANGED builder

\* faulty variant: the builder handed back to the caller with the error
CanCall_AfterError == phase \in {"Recording", "Dropped"}

\* the caller holds the builder: every operation takes self and returns it in Ok
CanCall == phase = "Recording"

\* ------------------------------------------------------- context checks
\* faulty variant: Some(0), where only end_render_pass is left, taken for outside
ensure_outside_render_pass_OrFinished ==
    IF is_none(subpasses_remaining) \/ subpasses_remaining = Some(0)
    THEN "Ok" ELSE "ForbiddenInsideRenderPass"

ensure_outside_render_pass ==
    IF is_none(subpasses_remaining) THEN "Ok" ELSE "ForbiddenInsideRenderPass"

\* faulty variant: the subpass kind compared before the render pass is looked for
ensure_inside_render_pass_KindFirst(secondary) ==
    IF subpass_secondary # secondary THEN "WrongSubpassType"
    ELSE IF is_some(subpasses_remaining) THEN "Ok"
    ELSE "ForbiddenOutsideRenderPass"

\* faulty variant: the comparison of the subpass kind inverted
ensure_inside_render_pass_Inverted(secondary) ==
    IF is_some(subpasses_remaining)
    THEN IF subpass_secondary # secondary THEN "Ok" ELSE "WrongSubpassType"
    ELSE "ForbiddenOutsideRenderPass"

\* faulty variant: the kind of the subpass not compared
ensure_inside_render_pass_AnyKind(secondary) ==
    IF is_some(subpasses_remaining) THEN "Ok" ELSE "ForbiddenOutsideRenderPass"

ensure_inside_render_pass(secondary) ==
    IF is_some(subpasses_remaining)
    THEN IF subpass_secondary = secondary THEN "Ok" ELSE "WrongSubpassType"
    ELSE "ForbiddenOutsideRenderPass"

SubpassContents(secondary) ==
    IF secondary THEN "SecondaryCommandBuffers" ELSE "Inline"

\* ---------------------------------------------------------------- build
\* faulty variant: build without ensure_outside_render_pass
build_context_NoRenderPassCheck ==
    IF secondary_cb THEN "ForbiddenInSecondary" ELSE "Ok"

\* the checks of build, in the order of the code
build_context ==
    IF secondary_cb THEN "ForbiddenInSecondary" ELSE ensure_outside_render_pass

build(oom) ==
    LET op == "build"
        args == [none |-> TRUE] IN
    /\ CanCall
    /\ IF build_context # "Ok" THEN Reject(op, args, build_context)
       ELSE IF oom THEN Reject(op, args, "OomError")
       ELSE /\ Returns(op, args, "Ok", "Built")
            /\ UNCHANGED builder

\* ---------------------------------------------------- begin_render_pass
begin_render_pass_context ==
    IF secondary_cb THEN "ForbiddenInSecondary" ELSE ensure_outside_render_pass

\* faulty variant: Some(num_subpasses)
InitialRemaining_NotDecremented(num_subpasses) == num_subpasses % UsizeModulus

\* Some(num_subpasses - 1), on usize
InitialRemaining(num_subpasses) == (num_subpasses - 1) % UsizeModulus

begin_render_pass(num_subpasses, secondary, debug_assertions, inner_ok) ==
    LET op == "begin_render_pass"
        args == [num_subpasses |-> num_subpasses, secondary |-> secondary] IN
    /\ CanCall
    /\ IF begin_render_pass_context # "Ok" THEN Reject(op, args, begin_render_pass_context)
       ELSE IF num_subpasses = 0 /\ debug_assertions THEN Panic(op, args)
       ELSE IF ~inner_ok THEN Reject(op, args, "SyncCommandBufferBuilderError")
       ELSE /\ inner' = Append(inner, [cmd |-> "begin_render_pass",
                                       num_subpasses |-> num_subpasses,
                                       contents |-> SubpassContents(secondary)])
            /\ subpasses_remaining' = Some(InitialRemaining(num_subpasses))
            /\ subpass_secondary' = secondary
            /\ UNCHANGED <<state_cacher, secondary_cb>>
            /\ Ok(op, args)

\* ------------------------------------------------------ end_render_pass
end_render_pass_context ==
    IF secondary_cb THEN "ForbiddenInSecondary"
    ELSE IF subpasses_remaining = Some(0) THEN "Ok"
    ELSE IF subpasses_remaining = None THEN "ForbiddenOutsideRenderPass"
    ELSE "NumSubpassesMismatch"

\* faulty variant: subpasses_remaining reset before the match on it
end_render_pass_ResetFirst ==
    LET op == "end_render_pass"
        args == [none |-> TRUE] IN
    /\ CanCall
    /\ IF end_render_pass_context # "Ok"
       THEN /\ Err(op, args, end_render_pass_context)
            /\ subpasses_remaining' = None
            /\ UNCHANGED <<inner, state_cacher, secondary_cb, subpass_secondary>>
       ELSE /\ inner' = Append(inner, [cmd |-> "end_render_pass"])
            /\ subpasses_remaining' = None
            /\ UNCHANGED <<state_cacher, secondary_cb, subpass_secondary>>
            /\ Ok(op, args)

\* faulty variant: the state cache emptied when the render pass ends
end_render_pass_CacheReset ==
    LET op == "end_render_pass"
        args == [none |-> TRUE] IN
    /\ CanCall
    /\ IF end_render_pass_context # "Ok" THEN Reject(op, args, end_render_pass_context)
       ELSE /\ inner' = Append(inner, [cmd |-> "end_render_pass"])
            /\ subpasses_remaining' = None
            /\ state_cacher' = StateCacher_new
            /\ UNCHANGED <<secondary_cb, subpass_secondary>>
            /\ Ok(op, args)

end_render_pass ==
    LET op == "end_render_pass"
        args == [none |-> TRUE] IN
    /\ CanCall
    /\ IF end_render_pass_context # "Ok" THEN Reject(op, args, end_render_pass_context)
       ELSE /\ inner' = Append(inner, [cmd |-> "end_render_pass"])
            /\ subpasses_remaining' = None
            /\ UNCHANGED <<state_cacher, secondary_cb, subpass_secondary>>
            /\ Ok(op, args)

\* --------------------------------------------------------- next_subpass
\* faulty variant: secondary_cb looked at after the match on subpasses_remaining
next_subpass_context_SecondaryLast ==
    IF subpasses_remaining = None THEN "ForbiddenOutsideRenderPass"
    ELSE IF subpasses_remaining = Some(0) THEN "NumSubpassesMismatch"
    ELSE IF secondary_cb THEN "ForbiddenInSecondary"
    ELSE "Ok"

next_subpass_context ==
    IF secondary_cb THEN "ForbiddenInSecondary"
    ELSE IF subpasses_remaining = None THEN "ForbiddenOutsideRenderPass"
    ELSE IF subpasses_remaining = Some(0) THEN "NumSubpassesMismatch"
    ELSE "Ok"

\* faulty variant: Some(mut num) => num -= 1, which decrements a copy
NextRemaining_OfCopy(num) == num

\* Some(ref mut num) => *num -= 1
NextRemaining(num) == num - 1

\* faulty variant: the kind of the subpass before kept
NextSubpassKind_Kept(secondary) == subpass_secondary

\* self.subpass_secondary = secondary
NextSubpassKind(secondary) == secondary

next_subpass(secondary) ==
    LET op == "next_subpass"
        args == [secondary |-> secondary] IN
    /\ CanCall
    /\ IF next_subpass_context # "Ok" THEN Reject(op, args, next_subpass_context)
       ELSE /\ subpasses_remaining' = Some(NextRemaining(unwrap(subpasses_remaining)))
            /\ subpass_secondary' = NextSubpassKind(secondary)
            /\ inner' = Append(inner, [cmd |-> "next_subpass",
                                       contents |-> SubpassContents(secondary)])
            /\ UNCHANGED <<state_cacher, secondary_cb>>
            /\ Ok(op, args)

\* ------------------------------------------- clear_color_image[_dimensions]
\* faulty variant: a depth value let through as a color
is_color_value_OrDepth(color) == color \in {"Float", "Int", "Uint", "Depth"}

\* ClearValue::Float(_) | ClearValue::Int(_) | ClearValue::Uint(_) => {}
is_color_value(color) == color \in {"Float", "Int", "Uint"}

ClearColorImage(op, args, check, inner_ok) ==
    /\ CanCall
    /\ IF ensure_outside_render_pass # "Ok"
       THEN Reject(op, args, ensure_outside_render_pass)
       ELSE IF check # "Ok" THEN Reject(op, args, check)
       ELSE IF ~is_color_value(args.color) THEN Panic(op, args)
       ELSE IF ~inner_ok THEN Reject(op, args, "SyncCommandBufferBuilderError")
       ELSE /\ inner' = Append(inner, [cmd |-> "clear_color_image",
                                       layout |-> "TransferDstOptimal",
                                       color |-> args.color,
                                       regions |-> <<[base_mip_level |-> args.first_mipmap,
                                                      level_count |-> args.num_mipmaps,
                                                      base_array_layer |-> args.first_layer,
                                                      layer_count |-> args.num_layers]>>])
            /\ UNCHANGED <<state_cacher, subpasses_remaining, secondary_cb,
                           subpass_secondary>>
            /\ Ok(op, args)

clear_color_image_dimensions(region, color, check, inner_ok) ==
    ClearColorImage("clear_color_image_dimensions",
                    [first_layer |-> region.first_layer, num_layers |-> region.num_layers,
                     first_mipmap |-> region.first_mipmap,
                     num_mipmaps |-> region.num_mipmaps, color |-> color],
                    check, inner_ok)

clear_color_image(color, check, inner_ok) ==
    ClearColorImage("clear_color_image",
                    [first_layer |-> 0, num_layers |-> Image.array_layers,
                     first_mipmap |-> 0, num_mipmaps |-> Image.mipmap_levels,
                     color |-> color],
                    check, inner_ok)

\* ---------------------------------------------------------- copy_buffer
\* validity::check_copy_buffer: the copy_size of the infos it returns
check_copy_buffer_copy_size(source_size, destination_size) ==
    IF source_size < destination_size THEN source_size ELSE destination_size

\* faulty variant: the region as long as the source
CopyBufferRegions_SourceSize(source_size, destination_size) ==
    <<[src_offset |-> 0, dst_offset |-> 0, size |-> source_size]>>

\* iter::once((0, 0, infos.copy_size))
CopyBufferRegions(source_size, destination_size) ==
    <<[src_offset |-> 0, dst_offset |-> 0,
       size |-> check_copy_buffer_copy_size(source_size, destination_size)]>>

copy_buffer(source_size, destination_size, check, inner_ok) ==
    LET op == "copy_buffer"
        args == [source_size |-> source_size, destination_size |-> destination_size] IN
    /\ CanCall
    /\ IF ensure_outside_render_pass # "Ok"
       THEN Reject(op, args, ensure_outside_render_pass)
       ELSE IF check # "Ok" THEN Reject(op, args, check)
       ELSE IF ~inner_ok THEN Reject(op, args, "SyncCommandBufferBuilderError")
       ELSE /\ inner' = Append(inner, [cmd |-> "copy_buffer",
                                       regions |-> CopyBufferRegions(source_size,
                                                                     destination_size)])
            /\ UNCHANGED <<state_cacher, subpasses_remaining, secondary_cb,
                           subpass_secondary>>
            /\ Ok(op, args)

\* ---------------------------------------- copy_buffer_to_image[_dimensions]
\* faulty variant: every aspect of the image selected
image_aspect_Every == [color |-> TRUE, depth |-> TRUE, stencil |-> TRUE]

\* UnsafeCommandBufferBuilderImageAspect of an image that has_color()
image_aspect == [color |-> TRUE, depth |-> FALSE, stencil |-> FALSE]

CopyBufferToImage(op, args, inner_ok) ==
    /\ CanCall
    /\ IF ensure_outside_render_pass # "Ok"
       THEN Reject(op, args, ensure_outside_render_pass)
       ELSE IF ~args.has_color THEN Panic(op, args)
       ELSE IF ~inner_ok THEN Reject(op, args, "SyncCommandBufferBuilderError")
       ELSE /\ inner' = Append(inner,
                  [cmd |-> "copy_buffer_to_image",
                   layout |-> "TransferDstOptimal",
                   regions |-> <<[buffer_offset |-> 0,
                                  buffer_row_length |-> 0,
                                  buffer_image_height |-> 0,
                                  image_aspect |-> image_aspect,
                                  image_mip_level |-> args.mipmap,
                                  image_base_array_layer |-> args.first_layer,
                                  image_layer_count |-> args.num_layers,
                                  image_offset |-> args.offset,
                                  image_extent |-> args.size]>>])
            /\ UNCHANGED <<state_cacher, subpasses_remaining, secondary_cb,
                           subpass_secondary>>
            /\ Ok(op, args)

copy_buffer_to_image_dimensions(region, has_color, inner_ok) ==
    CopyBufferToImage("copy_buffer_to_image_dimensions",
                      [offset |-> region.offset, size |-> region.size,
                       first_layer |-> region.first_layer,
                       num_layers |-> region.num_layers, mipmap |-> region.mipmap,
                       has_color |-> has_color],
                      inner_ok)

copy_buffer_to_image(has_color, inner_ok) ==
    CopyBufferToImage("copy_buffer_to_image",
                      [offset |-> 0, size |-> Image.dims, first_layer |-> 0,
                       num_layers |-> 1, mipmap |-> 0, has_color |-> has_color],
                      inner_ok)

\* ------------------------------------------------- emission shortcuts
\* push_constants: one command per push-constant range of the pipeline
push_constants(p) ==
    [i \in 1 .. num_push_constants_ranges(p) |->
        [cmd |-> "push_constants", pipeline |-> p, range |-> i]]

\* faulty variant: the scissors never set
set_state_NoScissor(dynamic) ==
    (IF is_some(dynamic.line_width)
     THEN <<[cmd |-> "set_line_width", value |-> unwrap(dynamic.line_width)]>>
     ELSE <<>>)
    \o (IF is_some(dynamic.viewports)
        THEN <<[cmd |-> "set_viewport", value |-> unwrap(dynamic.viewports)]>>
        ELSE <<>>)

\* set_state: one command per field of the filtered dynamic state that is Some
set_state(dynamic) ==
    (IF is_some(dynamic.line_width)
     THEN <<[cmd |-> "set_line_width", value |-> unwrap(dynamic.line_width)]>>
     ELSE <<>>)
    \o (IF is_some(dynamic.viewports)
        THEN <<[cmd |-> "set_viewport", value |-> unwrap(dynamic.viewports)]>>
        ELSE <<>>)
    \o (IF is_some(dynamic.scissors)
        THEN <<[cmd |-> "set_scissor", value |-> unwrap(dynamic.scissors)]>>
        ELSE <<>>)

\* faulty variant: the sets taken as bound when the call before used the pipeline
descriptor_sets_Cached(gfx, p) ==
    IF last.op \in {"dispatch", "draw", "draw_indexed", "draw_indirect"}
          /\ last.args.pipeline = p
    THEN <<>>
    ELSE <<[cmd |-> "bind_descriptor_sets", gfx |-> gfx, pipeline |-> p]>>

descriptor_sets(gfx, p) ==
    <<[cmd |-> "bind_descriptor_sets", gfx |-> gfx, pipeline |-> p]>>

vertex_buffers == <<[cmd |-> "bind_vertex_buffers"]>>

\* ------------------------------------------------------------- dispatch
\* faulty variant: the pipeline bound whatever the StateCacherOutcome
DispatchBind_Always(p) ==
    <<[cmd |-> "bind_pipeline_compute", pipeline |-> p]>>

\* the bind the dispatch emits: only on StateCacherOutcome::NeedChange
DispatchBind(p) ==
    IF Outcome(state_cacher.compute_pipeline, p) = "NeedChange"
    THEN <<[cmd |-> "bind_pipeline_compute", pipeline |-> p]>>
    ELSE <<>>

\* faulty variant: the descriptor sets bound before the pipeline and the constants
dispatch_SetsFirst(p, check, sets_ok) ==
    LET op == "dispatch"
        args == [pipeline |-> p] IN
    /\ CanCall
    /\ IF ensure_outside_render_pass # "Ok"
       THEN Reject(op, args, ensure_outside_render_pass)
       ELSE IF check # "Ok" THEN Reject(op, args, check)
       ELSE IF ~sets_ok THEN Reject(op, args, "SyncCommandBufferBuilderError")
       ELSE /\ state_cacher' = bind_compute_pipeline(state_cacher, p)
            /\ UNCHANGED <<subpasses_remaining, secondary_cb, subpass_secondary>>
            /\ inner' = inner \o descriptor_sets(FALSE, p) \o DispatchBind(p)
                               \o push_constants(p) \o <<[cmd |-> "dispatch"]>>
            /\ Ok(op, args)

dispatch(p, check, sets_ok) ==
    LET op == "dispatch"
        args == [pipeline |-> p] IN
    /\ CanCall
    /\ IF ensure_outside_render_pass # "Ok"
       THEN Reject(op, args, ensure_outside_render_pass)
       ELSE IF check # "Ok" THEN Reject(op, args, check)
       ELSE /\ state_cacher' = bind_compute_pipeline(state_cacher, p)
            /\ UNCHANGED <<subpasses_remaining, secondary_cb, subpass_secondary>>
            /\ IF ~sets_ok
               THEN /\ inner' = inner \o DispatchBind(p) \o push_constants(p)
                    /\ Err(op, args, "SyncCommandBufferBuilderError")
               ELSE /\ inner' = inner \o DispatchBind(p) \o push_constants(p)
                                   \o descriptor_sets(FALSE, p)
                                   \o <<[cmd |-> "dispatch"]>>
                    /\ Ok(op, args)

\* --------------------------------------------------------- fill_buffer
\* faulty variant: check_fill_buffer called before ensure_outside_render_pass
fill_buffer_CheckFirst(check) ==
    LET op == "fill_buffer"
        args == [none |-> TRUE] IN
    /\ CanCall
    /\ IF check # "Ok" THEN Reject(op, args, check)
       ELSE IF ensure_outside_render_pass # "Ok"
       THEN Reject(op, args, ensure_outside_render_pass)
       ELSE /\ inner' = Append(inner, [cmd |-> "fill_buffer"])
            /\ UNCHANGED <<state_cacher, subpasses_remaining, secondary_cb,
                           subpass_secondary>>
            /\ Ok(op, args)

fill_buffer(check) ==
    LET op == "fill_buffer"
        args == [none |-> TRUE] IN
    /\ CanCall
    /\ IF ensure_outside_render_pass # "Ok"
       THEN Reject(op, args, ensure_outside_render_pass)
       ELSE IF check # "Ok" THEN Reject(op, args, check)
       ELSE /\ inner' = Append(inner, [cmd |-> "fill_buffer"])
            /\ UNCHANGED <<state_cacher, subpasses_remaining, secondary_cb,
                           subpass_secondary>>
            /\ Ok(op, args)

\* ------------------------------------------------------- update_buffer
\* faulty variant: a buffer exactly as large as the data taken as well
BufferHoldsData_OrEqual(buffer_size, size_of_data) == buffer_size >= size_of_data

\* buffer.size() > size_of_data
BufferHoldsData(buffer_size, size_of_data) == buffer_size > size_of_data

update_buffer(buffer_size, size_of_data, check) ==
    LET op == "update_buffer"
        args == [buffer_size |-> buffer_size, size_of_data |-> size_of_data] IN
    /\ CanCall
    /\ IF ensure_outside_render_pass # "Ok"
       THEN Reject(op, args, ensure_outside_render_pass)
       ELSE IF check # "Ok" THEN Reject(op, args, check)
       ELSE IF BufferHoldsData(buffer_size, size_of_data)
       THEN /\ inner' = Append(inner, [cmd |-> "update_buffer"])
            /\ UNCHANGED <<state_cacher, subpasses_remaining, secondary_cb,
                           subpass_secondary>>
            /\ Ok(op, args)
       ELSE Panic(op, args)

\* ------------------------------------------- draw, draw_indexed, draw_indirect
\* faulty variant: the cache asked, the bind never emitted
GraphicsBind_Skipped(p) == <<>>

\* the binds a draw emits: only on StateCacherOutcome::NeedChange
GraphicsBind(p) ==
    IF Outcome(state_cacher.graphics_pipeline, p) = "NeedChange"
    THEN <<[cmd |-> "bind_pipeline_graphics", pipeline |-> p]>>
    ELSE <<>>

\* faulty variant: the index buffer bound whatever the StateCacherOutcome
IndexBind_Always(ib, ty) ==
    <<[cmd |-> "bind_index_buffer", buffer |-> ib, ty |-> ty]>>

IndexBind(ib, ty) ==
    IF Outcome(state_cacher.index_buffer, <<ib, ty>>) = "NeedChange"
    THEN <<[cmd |-> "bind_index_buffer", buffer |-> ib, ty |-> ty]>>
    ELSE <<>>

draw(p, dynamic, check, fault) ==
    LET op == "draw"
        args == [pipeline |-> p, dynamic |-> dynamic]
        sc1 == bind_graphics_pipeline(state_cacher, p)
        sc2 == dynamic_state_cache(sc1, dynamic)
        c1 == inner \o GraphicsBind(p) \o push_constants(p)
                    \o set_state(dynamic_state_delta(sc1, dynamic))
        c2 == c1 \o descriptor_sets(TRUE, p)
        c3 == c2 \o vertex_buffers IN
    /\ CanCall
    /\ IF ensure_inside_render_pass(FALSE) # "Ok"
       THEN Reject(op, args, ensure_inside_render_pass(FALSE))
       ELSE IF check # "Ok" THEN Reject(op, args, check)
       ELSE /\ state_cacher' = sc2
            /\ UNCHANGED <<subpasses_remaining, secondary_cb, subpass_secondary>>
            /\ IF fault = "descriptor_sets"
               THEN inner' = c1 /\ Err(op, args, "SyncCommandBufferBuilderError")
               ELSE IF fault = "vertex_buffers"
               THEN inner' = c2 /\ Err(op, args, "SyncCommandBufferBuilderError")
               ELSE inner' = Append(c3, [cmd |-> "draw"]) /\ Ok(op, args)

draw_indexed(p, dynamic, ib, ty, check, fault) ==
    LET op == "draw_indexed"
        args == [pipeline |-> p, dynamic |-> dynamic, index_buffer |-> ib, index_ty |-> ty]
        sc1 == bind_graphics_pipeline(state_cacher, p)
        sc2 == bind_index_buffer(sc1, ib, ty)
        sc3 == dynamic_state_cache(sc2, dynamic)
        c0 == inner \o GraphicsBind(p)
        c1 == c0 \o IndexBind(ib, ty) \o push_constants(p)
                 \o set_state(dynamic_state_delta(sc2, dynamic))
        c2 == c1 \o descriptor_sets(TRUE, p)
        c3 == c2 \o vertex_buffers IN
    /\ CanCall
    /\ IF ensure_inside_render_pass(FALSE) # "Ok"
       THEN Reject(op, args, ensure_inside_render_pass(FALSE))
       ELSE IF check # "Ok" THEN Reject(op, args, check)
       ELSE /\ UNCHANGED <<subpasses_remaining, secondary_cb, subpass_secondary>>
            /\ IF fault = "bind_index_buffer" /\ IndexBind(ib, ty) # <<>>
               THEN /\ state_cacher' = sc2
                    /\ inner' = c0
                    /\ Err(op, args, "SyncCommandBufferBuilderError")
               ELSE /\ state_cacher' = sc3
                    /\ IF fault = "descriptor_sets"
                       THEN inner' = c1 /\ Err(op, args, "SyncCommandBufferBuilderError")
                       ELSE IF fault = "vertex_buffers"
                       THEN inner' = c2 /\ Err(op, args, "SyncCommandBufferBuilderError")
                       ELSE inner' = Append(c3, [cmd |-> "draw_indexed"]) /\ Ok(op, args)

draw_indirect(p, dynamic, check, fault) ==
    LET op == "draw_indirect"
        args == [pipeline |-> p, dynamic |-> dynamic]
        sc1 == bind_graphics_pipeline(state_cacher, p)
        sc2 == dynamic_state_cache(sc1, dynamic)
        c1 == inner \o GraphicsBind(p) \o push_constants(p)
                    \o set_state(dynamic_state_delta(sc1, dynamic))
        c2 == c1 \o descriptor_sets(TRUE, p)
        c3 == c2 \o vertex_buffers IN
    /\ CanCall
    /\ IF ensure_inside_render_pass(FALSE) # "Ok"
       THEN Reject(op, args, ensure_inside_render_pass(FALSE))
       ELSE IF check # "Ok" THEN Reject(op, args, check)
       ELSE /\ state_cacher' = sc2
            /\ UNCHANGED <<subpasses_remaining, secondary_cb, subpass_secondary>>
            /\ IF fault = "descriptor_sets"
               THEN inner' = c1 /\ Err(op, args, "SyncCommandBufferBuilderError")
               ELSE IF fault = "vertex_buffers"
               THEN inner' = c2 /\ Err(op, args, "SyncCommandBufferBuilderError")
               ELSE IF fault = "draw_indirect"
               THEN inner' = c3 /\ Err(op, args, "SyncCommandBufferBuilderError")
               ELSE inner' = Append(c3, [cmd |-> "draw_indirect"]) /\ Ok(op, args)

\* ------------------------------------------- outcomes of the collaborators
\* what the validity::check_* functions of each operation return
ClearChecks == {"Ok", "CheckClearColorImageError"}
CopyBufferChecks == {"Ok", "CheckCopyBufferError"}
FillBufferChecks == {"Ok", "CheckFillBufferError"}
UpdateBufferChecks == {"Ok", "CheckUpdateBufferError"}
DispatchChecks == {"Ok", "CheckPushConstantsValidityError",
                   "CheckDescriptorSetsValidityError", "CheckDispatchError"}
DrawChecks == {"Ok", "CheckDynamicStateValidityError", "CheckPushConstantsValidityError",
               "CheckDescriptorSetsValidityError", "CheckVertexBufferError"}
DrawIndexedChecks == DrawChecks \cup {"CheckIndexBufferError"}
\* the call of the inner builder that returns a SyncCommandBufferBuilderError
DrawFaults == {"None", "descriptor_sets", "vertex_buffers"}
DrawIndexedFaults == DrawFaults \cup {"bind_index_buffer"}
DrawIndirectFaults == DrawFaults \cup {"draw_indirect"}

\* ------------------------------------------------------------------ new
\* faulty variant: the builder made with Kind::secondary and the flag set
Init_Secondary ==
    /\ inner = <<>>
    /\ state_cacher = StateCacher_new
    /\ subpasses_remaining = None
    /\ secondary_cb = TRUE
    /\ subpass_secondary = FALSE
    /\ phase = "Recording"
    /\ last = [op |-> "new", args |-> [none |-> TRUE], res |-> "Ok", from |-> 0]
    /\ calls = 0

Init ==
    /\ inner = <<>>
    /\ state_cacher = StateCacher_new
    /\ subpasses_remaining = None
    /\ secondary_cb = FALSE
    /\ subpass_secondary = FALSE
    /\ phase = "Recording"
    /\ last = [op |-> "new", args |-> [none |-> TRUE], res |-> "Ok", from |-> 0]
    /\ calls = 0

\* Every operation, on the inputs above.
Next ==
    \/ calls < MaxCalls /\ \E oom \in BOOLEAN : build(oom)
    \/ calls < MaxCalls /\
          \E k \in SubpassCounts, s \in BOOLEAN, d \in BOOLEAN, ok \in BOOLEAN :
             begin_render_pass(k, s, d, ok)
    \/ calls < MaxCalls /\ end_render_pass
    \/ calls < MaxCalls /\ \E s \in BOOLEAN : next_subpass(s)
    \/ calls < MaxCalls /\
          \E c \in ClearValues, v \in ClearChecks, ok \in BOOLEAN :
             clear_color_image(c, v, ok)
    \/ calls < MaxCalls /\
          \E r \in ClearRegions, c \in ClearValues, v \in ClearChecks, ok \in BOOLEAN :
             clear_color_image_dimensions(r, c, v, ok)
    \/ calls < MaxCalls /\
          \E s \in Sizes, d \in Sizes, v \in CopyBufferChecks, ok \in BOOLEAN :
             copy_buffer(s, d, v, ok)
    \/ calls < MaxCalls /\ \E c \in BOOLEAN, ok \in BOOLEAN : copy_buffer_to_image(c, ok)
    \/ calls < MaxCalls /\
          \E r \in CopyRegions, c \in BOOLEAN, ok \in BOOLEAN :
             copy_buffer_to_image_dimensions(r, c, ok)
    \/ calls < MaxCalls /\
          \E p \in Pipelines, v \in DispatchChecks, ok \in BOOLEAN : dispatch(p, v, ok)
    \/ calls < MaxCalls /\ \E v \in FillBufferChecks : fill_buffer(v)
    \/ calls < MaxCalls /\
          \E b \in Sizes, d \in Sizes, v \in UpdateBufferChecks : update_buffer(b, d, v)
    \/ calls < MaxCalls /\
          \E p \in Pipelines, d \in UniformDynamicStates, v \in DrawChecks,
             f \in DrawFaults : draw(p, d, v, f)
    \/ calls < MaxCalls /\
          \E p \in Pipelines, d \in UniformDynamicStates, ib \in IndexBuffers,
             ty \in IndexTypes, v \in DrawIndexedChecks, f \in DrawIndexedFaults :
             draw_indexed(p, d, ib, ty, v, f)
    \/ calls < MaxCalls /\
          \E p \in Pipelines, d \in UniformDynamicStates, v \in DrawChecks,
             f \in DrawIndirectFaults : draw_indirect(p, d, v, f)

Spec == Init /\ [][Next]_vars

\* The operations that read or write the render-pass tracker and can succeed
\* inside a render pass, over whole render passes.
NextPass ==
    \/ calls < MaxPassCalls /\ \E oom \in BOOLEAN : build(oom)
    \/ calls < MaxPassCalls /\
          \E k \in SubpassCounts, s \in BOOLEAN, d \in BOOLEAN, ok \in BOOLEAN :
             begin_render_pass(k, s, d, ok)
    \/ calls < MaxPassCalls /\ end_render_pass
    \/ calls < MaxPassCalls /\ \E s \in BOOLEAN : next_subpass(s)
    \/ calls < MaxPassCalls /\
          \E v \in DrawChecks, f \in DrawFaults : draw("p1", NoDynamicState, v, f)
    \/ calls < MaxPassCalls /\
          \E v \in DrawIndexedChecks, f \in DrawIndexedFaults :
             draw_indexed("p1", NoDynamicState, "ib1", "U16", v, f)
    \/ calls < MaxPassCalls /\
          \E v \in DrawChecks, f \in DrawIndirectFaults :
             draw_indirect("p1", NoDynamicState, v, f)

SpecPass == Init /\ [][NextPass]_vars

\* The operations that read or write the state cache, inside and outside render
\* passes of one or two inline subpasses.
NextCache ==
    \/ calls < MaxCacheCalls /\ \E k \in {1, 2} : begin_render_pass(k, FALSE, FALSE, TRUE)
    \/ calls < MaxCacheCalls /\ end_render_pass
    \/ calls < MaxCacheCalls /\ next_subpass(FALSE)
    \/ calls < MaxCacheCalls /\
          \E p \in Pipelines, v \in DispatchChecks, ok \in BOOLEAN : dispatch(p, v, ok)
    \/ calls < MaxCacheCalls /\
          \E p \in Pipelines, v \in DrawChecks, f \in DrawFaults :
             draw(p, NoDynamicState, v, f)
    \/ calls < MaxCacheCalls /\
          \E p \in Pipelines, ib \in IndexBuffers, ty \in IndexTypes,
             v \in DrawIndexedChecks, f \in DrawIndexedFaults :
             draw_indexed(p, NoDynamicState, ib, ty, v, f)
    \/ calls < MaxCacheCalls /\
          \E p \in Pipelines, v \in DrawChecks, f \in DrawIndirectFaults :
             draw_indirect(p, NoDynamicState, v, f)

SpecCache == Init /\ [][NextCache]_vars

\* Every value of the builder's fields with secondary_cb set: no constructor of
\* this file builds one, the operations are checked as functions of the fields.
InitSecondary ==
    /\ inner = <<>>
    /\ state_cacher = StateCacher_new
    /\ subpasses_remaining \in {None} \cup {Some(n) : n \in 0 .. MaxSubpasses}
    /\ secondary_cb = TRUE
    /\ subpass_secondary \in BOOLEAN
    /\ phase = "Recording"
    /\ last = [op |-> "new", args |-> [none |-> TRUE], res |-> "Ok", from |-> 0]
    /\ calls = 0

\* The operations that read secondary_cb, and the draws.
NextSecondary ==
    \/ calls < MaxCalls /\ \E oom \in BOOLEAN : build(oom)
    \/ calls < MaxCalls /\
          \E k \in SubpassCounts, s \in BOOLEAN, d \in BOOLEAN, ok \in BOOLEAN :
             begin_render_pass(k, s, d, ok)
    \/ calls < MaxCalls /\ end_render_pass
    \/ calls < MaxCalls /\ \E s \in BOOLEAN : next_subpass(s)
    \/ calls < MaxCalls /\
          \E v \in DrawChecks, f \in DrawFaults : draw("p1", NoDynamicState, v, f)
    \/ calls < MaxCalls /\
          \E v \in DrawIndexedChecks, f \in DrawIndexedFaults :
             draw_indexed("p1", NoDynamicState, "ib1", "U16", v, f)
    \/ calls < MaxCalls /\
          \E v \in DrawChecks, f \in DrawIndirectFaults :
             draw_indirect("p1", NoDynamicState, v, f)

SpecSecondary == InitSecondary /\ [][NextSecondary]_vars

\* The operations that read or write the state cache, with every dynamic state
\* in draw, every index buffer in draw_indexed and every pipeline in dispatch and
\* draw_indirect, inside and outside render passes of one inline subpass.
NextDynamic ==
    \/ calls < MaxDynamicCalls /\ begin_render_pass(1, FALSE, FALSE, TRUE)
    \/ calls < MaxDynamicCalls /\ end_render_pass
    \/ calls < MaxDynamicCalls /\
          \E p \in Pipelines, v \in DispatchChecks, ok \in BOOLEAN : dispatch(p, v, ok)
    \/ calls < MaxDynamicCalls /\
          \E d \in DynamicStates, v \in DrawChecks, f \in DrawFaults :
             draw("p1", d, v, f)
    \/ calls < MaxDynamicCalls /\
          \E d \in UniformDynamicStates, ib \in IndexBuffers,
             v \in DrawIndexedChecks, f \in DrawIndexedFaults :
             draw_indexed("p1", d, ib, "U16", v, f)
    \/ calls < MaxDynamicCalls /\
          \E p \in Pipelines, d \in UniformDynamicStates, v \in DrawChecks,
             f \in DrawIndirectFaults : draw_indirect(p, d, v, f)

SpecDynamic == Init /\ [][NextDynamic]_vars

\* Every operation, on arguments that pass validation and that the inner
\* builder accepts: the sequences of calls that record commands, through render
\* passes of one or two subpasses of either kind.
NextRecord ==
    \/ calls < MaxRecordCalls /\ build(FALSE)
    \/ calls < MaxRecordCalls /\
          \E k \in {1, 2}, s \in BOOLEAN : begin_render_pass(k, s, FALSE, TRUE)
    \/ calls < MaxRecordCalls /\ end_render_pass
    \/ calls < MaxRecordCalls /\ \E s \in BOOLEAN : next_subpass(s)
    \/ calls < MaxRecordCalls /\ clear_color_image("Float", "Ok", TRUE)
    \/ calls < MaxRecordCalls /\
          \E r \in ClearRegions : clear_color_image_dimensions(r, "Uint", "Ok", TRUE)
    \/ calls < MaxRecordCalls /\ copy_buffer(100, 64, "Ok", TRUE)
    \/ calls < MaxRecordCalls /\ copy_buffer_to_image(TRUE, TRUE)
    \/ calls < MaxRecordCalls /\
          \E r \in CopyRegions : copy_buffer_to_image_dimensions(r, TRUE, TRUE)
    \/ calls < MaxRecordCalls /\ \E p \in Pipelines : dispatch(p, "Ok", TRUE)
    \/ calls < MaxRecordCalls /\ fill_buffer("Ok")
    \/ calls < MaxRecordCalls /\ update_buffer(100, 64, "Ok")
    \/ calls < MaxRecordCalls /\
          \E p \in Pipelines, d \in UniformDynamicStates : draw(p, d, "Ok", "None")
    \/ calls < MaxRecordCalls /\
          \E ib \in IndexBuffers :
             draw_indexed("p1", NoDynamicState, ib, "U16", "Ok", "None")
    \/ calls < MaxRecordCalls /\ draw_indirect("p1", NoDynamicState, "Ok", "None")

SpecRecord == Init /\ [][NextRecord]_vars

\* ------------------------------------------------------- reading the log
\* the commands the last call appended, and the commands before it
Emitted == SubSeq(inner, last.from + 1, Len(inner))
PreLog == SubSeq(inner, 1, last.from)

Indices(log, c) == {i \in 1 .. Len(log) : log[i].cmd = c}
Count(log, c) == Cardinality(Indices(log, c))
Max(S) == CHOOSE x \in S : \A y \in S : y <= x
LastIndex(log, c) == IF Indices(log, c) = {} THEN 0 ELSE Max(Indices(log, c))

\* a begin-pass command with no end-pass command after it
InPass(log) == LastIndex(log, "begin_render_pass") > LastIndex(log, "end_render_pass")
\* num_subpasses of the framebuffer of the last begin-pass command
DeclaredSubpasses(log) == log[LastIndex(log, "begin_render_pass")].num_subpasses
\* next-subpass commands since the last begin-pass command
NextsSince(log) ==
    Cardinality({i \in Indices(log, "next_subpass") :
                    i > LastIndex(log, "begin_render_pass")})

ContextErrors == {"ForbiddenInSecondary", "ForbiddenInsideRenderPass",
                  "ForbiddenOutsideRenderPass", "NumSubpassesMismatch",
                  "WrongSubpassType"}
OutsideOps == {"begin_render_pass", "clear_color_image", "clear_color_image_dimensions",
               "copy_buffer", "copy_buffer_to_image", "copy_buffer_to_image_dimensions",
               "dispatch", "fill_buffer", "update_buffer", "build"}
DrawOps == {"draw", "draw_indexed", "draw_indirect"}
InsideOps == DrawOps \cup {"next_subpass", "end_render_pass"}
SecondaryOps == {"begin_render_pass", "next_subpass", "end_render_pass", "build"}

\* ----------------------------------------------------------------- C1
\* C1: inside the render pass of a framebuffer with k >= 1 subpasses,
\* end_render_pass returns Ok exactly when k-1 next_subpass calls have succeeded
\* since the begin and NumSubpassesMismatch when fewer have; next_subpass returns
\* Ok while fewer than k-1 have succeeded and NumSubpassesMismatch once k-1 have.
C1_SubpassCount ==
    LET k == DeclaredSubpasses(PreLog)
        n == NextsSince(PreLog) IN
    (InPass(PreLog) /\ k >= 1) =>
        /\ last.op = "end_render_pass" => (last.res = "Ok" <=> n = k - 1)
        /\ (last.op = "end_render_pass" /\ n < k - 1) => last.res = "NumSubpassesMismatch"
        /\ (last.op = "next_subpass" /\ n < k - 1) => last.res = "Ok"
        /\ (last.op = "next_subpass" /\ n = k - 1) => last.res = "NumSubpassesMismatch"

\* end_render_pass has succeeded after two next_subpass calls in a pass of three
C1_Witness ==
    /\ last.op = "end_render_pass" /\ last.res = "Ok"
    /\ InPass(PreLog) /\ DeclaredSubpasses(PreLog) = 3 /\ NextsSince(PreLog) = 2

\* ----------------------------------------------------------------- C2
\* C2: subpasses_remaining is Some exactly while a begin-pass command has no
\* end-pass command after it; its value is never negative; a successful
\* next_subpass lowers it by exactly one; no other call changes the value while
\* the pass stays open; end_render_pass succeeds only from Some(0).
C2_Step ==
    /\ is_some(subpasses_remaining') <=> InPass(inner')
    /\ is_some(subpasses_remaining') => unwrap(subpasses_remaining') >= 0
    /\ (last'.op = "next_subpass" /\ last'.res = "Ok") =>
          /\ is_some(subpasses_remaining)
          /\ subpasses_remaining' = Some(unwrap(subpasses_remaining) - 1)
    /\ (/\ ~(last'.op = "next_subpass" /\ last'.res = "Ok")
        /\ is_some(subpasses_remaining) /\ is_some(subpasses_remaining')) =>
          subpasses_remaining' = subpasses_remaining
    /\ (last'.op = "end_render_pass" /\ last'.res = "Ok") => subpasses_remaining = Some(0)

C2_Remaining == [][C2_Step]_vars

\* next_subpass has succeeded and left one subpass
C2_Witness ==
    /\ last.op = "next_subpass" /\ last.res = "Ok"
    /\ subpasses_remaining = Some(1)

\* ----------------------------------------------------------------- C3
\* every begin-pass command of a framebuffer with k >= 1 subpasses is followed by
\* an end-pass command, with no other begin-pass or end-pass command and exactly
\* k-1 next-subpass commands between the two
WellNested(log) ==
    \A i \in Indices(log, "begin_render_pass") :
        log[i].num_subpasses >= 1 =>
            \E j \in Indices(log, "end_render_pass") :
                /\ j > i
                /\ \A m \in (i + 1) .. (j - 1) :
                      log[m].cmd \notin {"begin_render_pass", "end_render_pass"}
                /\ Cardinality({m \in Indices(log, "next_subpass") : i < m /\ m < j})
                      = log[i].num_subpasses - 1

\* C3: build returns Ok only on a primary builder outside any render pass, and
\* ForbiddenInsideRenderPass on a primary builder inside one; the commands of a
\* built buffer are well nested.
C3_Build ==
    /\ (last.op = "build" /\ last.res = "Ok") =>
          (~secondary_cb /\ is_none(subpasses_remaining))
    /\ (last.op = "build" /\ ~secondary_cb /\ is_some(subpasses_remaining)) =>
          last.res = "ForbiddenInsideRenderPass"
    /\ phase = "Built" => WellNested(inner)

\* a buffer was built after a whole render pass of three subpasses
C3_Witness ==
    /\ phase = "Built"
    /\ \E i \in Indices(inner, "begin_render_pass") : inner[i].num_subpasses = 3

\* ----------------------------------------------------------------- C4
\* C4: a call of an operation that requires being outside a render pass, made on
\* a primary builder that is inside one, returns ForbiddenInsideRenderPass.
C4_Step ==
    (is_some(subpasses_remaining) /\ ~secondary_cb /\ last'.op \in OutsideOps) =>
        last'.res = "ForbiddenInsideRenderPass"

C4_InsideForbidden == [][C4_Step]_vars

\* update_buffer was refused in the last subpass of a secondary-only pass
C4_Witness ==
    /\ last.op = "update_buffer" /\ last.res = "ForbiddenInsideRenderPass"
    /\ subpasses_remaining = Some(0) /\ subpass_secondary

\* ----------------------------------------------------------------- C5
\* C5: a draw, draw_indexed, draw_indirect, next_subpass or end_render_pass call
\* made on a primary builder that is outside any render pass returns
\* ForbiddenOutsideRenderPass, whatever subpass_secondary holds.
C5_Step ==
    (is_none(subpasses_remaining) /\ ~secondary_cb /\ last'.op \in InsideOps) =>
        last'.res = "ForbiddenOutsideRenderPass"

C5_OutsideForbidden == [][C5_Step]_vars

\* a draw was refused after a secondary-only render pass had ended
C5_Witness ==
    /\ last.op = "draw" /\ last.res = "ForbiddenOutsideRenderPass"
    /\ is_none(subpasses_remaining) /\ subpass_secondary
    /\ Count(inner, "end_render_pass") = 1

\* ----------------------------------------------------------------- C6
ValidationErrors == DrawIndexedChecks \ {"Ok"}

\* C6: a draw, draw_indexed or draw_indirect call made right after a successful
\* begin_render_pass(secondary = false) fails only with a validation error or an
\* error of the inner builder, never with a context error; made right after a
\* successful begin_render_pass(secondary = true) it returns WrongSubpassType.
C6_Step ==
    (last.op = "begin_render_pass" /\ last.res = "Ok" /\ last'.op \in DrawOps) =>
        IF last.args.secondary
        THEN last'.res = "WrongSubpassType"
        ELSE last'.res \in {"Ok", "SyncCommandBufferBuilderError"} \cup ValidationErrors

C6_DrawAfterBegin == [][C6_Step]_vars

\* a draw_indexed has succeeded as the call after begin_render_pass(.., false, ..)
C6_Witness ==
    /\ last.op = "draw_indexed" /\ last.res = "Ok"
    /\ calls = 2
    /\ Len(PreLog) = 1 /\ PreLog[1].cmd = "begin_render_pass"
    /\ PreLog[1].contents = "Inline"

\* ----------------------------------------------------------------- C7
\* C7: on a builder with secondary_cb set, begin_render_pass, next_subpass,
\* end_render_pass and build return ForbiddenInSecondary, whatever
\* subpasses_remaining and the arguments are.
C7_Secondary ==
    (secondary_cb /\ last.op \in SecondaryOps) => last.res = "ForbiddenInSecondary"

\* next_subpass was refused on a secondary builder with no subpass left, where
\* a primary builder returns NumSubpassesMismatch
C7_Witness ==
    /\ secondary_cb
    /\ last.op = "next_subpass" /\ last.res = "ForbiddenInSecondary"
    /\ subpasses_remaining = Some(0)

\* ----------------------------------------------------------------- C8
\* the pipeline of the last bind command `c` of the log
LastBoundPipeline(log, c) ==
    IF LastIndex(log, c) = 0 THEN None ELSE Some(log[LastIndex(log, c)].pipeline)

\* C8: a successful dispatch emits one bind-compute-pipeline command, of its own
\* pipeline, when that pipeline is not the one of the last bind-compute-pipeline
\* command of this builder, and none when it is; after a successful dispatch, a
\* successful dispatch binds exactly when its pipeline is another one.
C8_Step ==
    (last'.op = "dispatch" /\ last'.res = "Ok") =>
        LET p == last'.args.pipeline
            binds == Count(Emitted', "bind_pipeline_compute") IN
        /\ binds = IF LastBoundPipeline(PreLog', "bind_pipeline_compute") = Some(p)
                   THEN 0 ELSE 1
        /\ \A i \in Indices(Emitted', "bind_pipeline_compute") : Emitted'[i].pipeline = p
        /\ (last.op = "dispatch" /\ last.res = "Ok") =>
              binds = IF last.args.pipeline = p THEN 0 ELSE 1

C8_DispatchBind == [][C8_Step]_vars

\* two dispatches of one pipeline, and one bind in all
C8_Witness ==
    /\ last.op = "dispatch" /\ last.res = "Ok" /\ calls = 2
    /\ Count(inner, "dispatch") = 2
    /\ Count(inner, "bind_pipeline_compute") = 1

\* ----------------------------------------------------------------- C9
\* the (buffer, type) of the last bind-index-buffer command of the log
LastBoundIndex(log) ==
    IF LastIndex(log, "bind_index_buffer") = 0 THEN None
    ELSE Some(<<log[LastIndex(log, "bind_index_buffer")].buffer,
                log[LastIndex(log, "bind_index_buffer")].ty>>)

\* C9: a successful draw, draw_indexed or draw_indirect emits one
\* bind-graphics-pipeline command, of its own pipeline, exactly when that pipeline
\* is not the one of the last bind-graphics-pipeline command of this builder; a
\* successful draw_indexed emits one bind-index-buffer command, of its own buffer
\* and index type, exactly when that pair is not the one of the last
\* bind-index-buffer command; draw and draw_indirect emit none.
C9_DrawBinds ==
    (last.op \in DrawOps /\ last.res = "Ok") =>
        /\ Count(Emitted, "bind_pipeline_graphics") =
              IF LastBoundPipeline(PreLog, "bind_pipeline_graphics")
                    = Some(last.args.pipeline)
              THEN 0 ELSE 1
        /\ \A i \in Indices(Emitted, "bind_pipeline_graphics") :
              Emitted[i].pipeline = last.args.pipeline
        /\ Count(Emitted, "bind_index_buffer") =
              IF /\ last.op = "draw_indexed"
                 /\ LastBoundIndex(PreLog)
                       # Some(<<last.args.index_buffer, last.args.index_ty>>)
              THEN 1 ELSE 0
        /\ \A i \in Indices(Emitted, "bind_index_buffer") :
              /\ Emitted[i].buffer = last.args.index_buffer
              /\ Emitted[i].ty = last.args.index_ty

\* a draw_indexed has bound the index buffer last bound under another index type,
\* and has not bound its pipeline again
C9_Witness ==
    /\ last.op = "draw_indexed" /\ last.res = "Ok"
    /\ Count(Emitted, "bind_pipeline_graphics") = 0
    /\ Count(Emitted, "bind_index_buffer") = 1
    /\ is_some(LastBoundIndex(PreLog))
    /\ unwrap(LastBoundIndex(PreLog))[1] = last.args.index_buffer
    /\ unwrap(LastBoundIndex(PreLog))[2] # last.args.index_ty

\* ---------------------------------------------------------------- C10
Smaller(a, b) == IF a <= b THEN a ELSE b

\* C10: a successful copy_buffer emits one copy command of one region, from
\* offset 0 to offset 0, as long as the smaller of the two buffers.
C10_CopyBuffer ==
    (last.op = "copy_buffer" /\ last.res = "Ok") =>
        Emitted = <<[cmd |-> "copy_buffer",
                     regions |-> <<[src_offset |-> 0, dst_offset |-> 0,
                                    size |-> Smaller(last.args.source_size,
                                                     last.args.destination_size)]>>]>>

\* 64 units were copied from a source of 100 to a destination of 64
C10_Witness ==
    /\ last.op = "copy_buffer" /\ last.res = "Ok"
    /\ last.args.source_size = 100 /\ last.args.destination_size = 64
    /\ Len(Emitted) = 1 /\ Emitted[1].regions[1].size = 64

\* ---------------------------------------------------------------- C11
ClearOps == {"clear_color_image", "clear_color_image_dimensions"}
ColorKinds == {"Float", "Int", "Uint"}

\* C11 as stated: a clear_color_image or clear_color_image_dimensions call with a
\* clear value that is not Float, Int or Uint ends in a panic, in every state of
\* the builder and for every layer/mip range.
C11_AlwaysPanics ==
    (last.op \in ClearOps /\ last.args.color \notin ColorKinds) => last.res = "Panic"

\* C11, amended: a clear_color_image or clear_color_image_dimensions call with a
\* clear value that is not Float, Int or Uint panics, and returns no error value,
\* when the builder is outside a render pass and the layer/mip range passes
\* check_clear_color_image; inside a render pass it returns
\* ForbiddenInsideRenderPass, and outside one with a range that fails the check
\* it returns the check's error.  It never emits a command.
C11_Step ==
    /\ \A c \in ClearValues \ ColorKinds, v \in ClearChecks, ok \in BOOLEAN :
          clear_color_image(c, v, ok) =>
              /\ last'.res = IF is_some(subpasses_remaining)
                             THEN "ForbiddenInsideRenderPass"
                             ELSE IF v # "Ok" THEN v ELSE "Panic"
              /\ inner' = inner
    /\ \A r \in ClearRegions, c \in ClearValues \ ColorKinds, v \in ClearChecks,
          ok \in BOOLEAN :
          clear_color_image_dimensions(r, c, v, ok) =>
              /\ last'.res = IF is_some(subpasses_remaining)
                             THEN "ForbiddenInsideRenderPass"
                             ELSE IF v # "Ok" THEN v ELSE "Panic"
              /\ inner' = inner

C11_NonColorClear == [][C11_Step]_vars

\* a clear of one mip level with a depth-stencil value has panicked
C11_Witness ==
    /\ last.op = "clear_color_image_dimensions" /\ last.res = "Panic"
    /\ last.args.color = "DepthStencil" /\ last.args.num_mipmaps = 1
    /\ phase = "Panicked" /\ inner = <<>>

\* ---------------------------------------------------------------- C12
\* C12: an update_buffer call made outside a render pass with data that passes
\* check_update_buffer returns Ok and emits exactly one update command when the
\* buffer is strictly larger than the data; when the buffer is as large as the
\* data or smaller the call ends in the explicit unsupported case
\* (unimplemented!()), emits no command and returns no builder.
C12_Step ==
    \A b \in Sizes, d \in Sizes :
        (update_buffer(b, d, "Ok") /\ is_none(subpasses_remaining)) =>
            IF b > d
            THEN /\ last'.res = "Ok"
                 /\ inner' = Append(inner, [cmd |-> "update_buffer"])
                 /\ phase' = "Recording"
            ELSE /\ last'.res = "Panic"
                 /\ inner' = inner
                 /\ phase' = "Panicked"

C13_Step ==
    \A b \in Sizes, d \in Sizes :
        (update_buffer(b, d, "Ok") /\ is_none(subpasses_remaining)) =>
            /\ last'.res = "Ok"
            /\ inner' = Append(inner, [cmd |-> "update_buffer"])

C13_AlwaysSucceeds == [][C13_Step]_vars

\* ---------------------------------------------------------------- C14
CopyImageOps == {"copy_buffer_to_image", "copy_buffer_to_image_dimensions"}

\* C14: a copy_buffer_to_image or copy_buffer_to_image_dimensions call made
\* outside a render pass to an image that has a color aspect fails only with an
\* error of the inner builder, and when it returns Ok it has emitted exactly one
\* copy command, with the layout TransferDstOptimal and one region whose aspect
\* is color and neither depth nor stencil; to an image without a color aspect it
\* ends in the explicit unsupported case (unimplemented!()), emits no command
\* and returns no builder.
C14_CopyBufferToImage ==
    (last.op \in CopyImageOps /\ is_none(subpasses_remaining)) =>
        IF last.args.has_color
        THEN /\ last.res \in {"Ok", "SyncCommandBufferBuilderError"}
             /\ last.res = "Ok" =>
                   /\ Len(Emitted) = 1
                   /\ Emitted[1].cmd = "copy_buffer_to_image"
                   /\ Emitted[1].layout = "TransferDstOptimal"
                   /\ Len(Emitted[1].regions) = 1
                   /\ Emitted[1].regions[1].image_aspect
                         = [color |-> TRUE, depth |-> FALSE, stencil |-> FALSE]
             /\ last.res # "Ok" => Emitted = <<>>
        ELSE /\ last.res = "Panic"
             /\ Emitted = <<>>
             /\ phase = "Panicked"

\* a copy to an image without a color aspect has ended in the unsupported case,
\* after a copy to an image with one had emitted its command
C14_Witness ==
    /\ last.op = "copy_buffer_to_image" /\ last.res = "Panic"
    /\ ~last.args.has_color
    /\ Len(inner) = 1 /\ inner[1].cmd = "copy_buffer_to_image"
    /\ inner[1].regions[1].image_aspect.color

\* ---------------------------------------------------------------- C15
DrawCmds == {"draw", "draw_indexed", "draw_indirect"}
NoneBefore(log, cmds) == \A i \in 1 .. Len(log) : log[i].cmd \notin cmds

\* C15: the builder returned by new has secondary_cb = false, subpasses_remaining
\* = None, no command and nothing in its state cache; the first dispatch that
\* returns Ok emits one bind-compute-pipeline command of its pipeline and the
\* first draw, draw_indexed or draw_indirect that returns Ok emits one
\* bind-graphics-pipeline command of its pipeline, whichever pipeline it is; a
\* build made as the first call returns no context error.
C15_New ==
    /\ calls = 0 =>
          /\ ~secondary_cb
          /\ subpasses_remaining = None
          /\ inner = <<>>
          /\ state_cacher.graphics_pipeline = None
          /\ state_cacher.compute_pipeline = None
          /\ state_cacher.index_buffer = None
          /\ state_cacher.dynamic_state =
                [line_width |-> None, viewports |-> None, scissors |-> None]
    /\ (last.op = "dispatch" /\ last.res = "Ok" /\ NoneBefore(PreLog, {"dispatch"})) =>
          /\ Count(Emitted, "bind_pipeline_compute") = 1
          /\ Emitted[1] = [cmd |-> "bind_pipeline_compute",
                           pipeline |-> last.args.pipeline]
    /\ (last.op \in DrawOps /\ last.res = "Ok" /\ NoneBefore(PreLog, DrawCmds)) =>
          /\ Count(Emitted, "bind_pipeline_graphics") = 1
          /\ Emitted[1] = [cmd |-> "bind_pipeline_graphics",
                           pipeline |-> last.args.pipeline]
    /\ (last.op = "build" /\ calls = 1) => last.res \notin ContextErrors

\* the first draw of the builder, of pipeline p2, has bound p2
C15_Witness ==
    /\ last.op = "draw" /\ last.res = "Ok" /\ last.args.pipeline = "p2"
    /\ Len(PreLog) = 1 /\ PreLog[1].cmd = "begin_render_pass"
    /\ Emitted[1].cmd = "bind_pipeline_graphics" /\ Emitted[1].pipeline = "p2"

\* ---------------------------------------------------------------- C16
\* the value of the last set command `c` of the log
LastSet(log, c) ==
    IF LastIndex(log, c) = 0 THEN None ELSE Some(log[LastIndex(log, c)].value)

\* the state cache holds what the commands of the log last bound and set
CacheAgrees ==
    /\ state_cacher.graphics_pipeline = LastBoundPipeline(inner, "bind_pipeline_graphics")
    /\ state_cacher.compute_pipeline = LastBoundPipeline(inner, "bind_pipeline_compute")
    /\ state_cacher.index_buffer = LastBoundIndex(inner)
    /\ state_cacher.dynamic_state.line_width = LastSet(inner, "set_line_width")
    /\ state_cacher.dynamic_state.viewports = LastSet(inner, "set_viewport")
    /\ state_cacher.dynamic_state.scissors = LastSet(inner, "set_scissor")

\* subpasses_remaining is Some exactly when the log is inside a render pass
TrackerAgrees == is_some(subpasses_remaining) <=> InPass(inner)

\* C16: every call is made on a builder whose calls so far have all returned Ok:
\* once a call has returned an error (or panicked) no later call appends a
\* command or builds the buffer; so every call starts from a state where the
\* state cache and subpasses_remaining agree with the commands emitted.
C16_Step ==
    /\ last.res = "Ok" /\ phase = "Recording"
    /\ CacheAgrees /\ TrackerAgrees
    /\ last'.res # "Ok" => phase' \in {"Dropped", "Panicked"}

C16_ErrorEndsChain == [][C16_Step]_vars

\* a draw_indexed has failed in bind_index_buffer with calls still to make: the
\* cache holds an index buffer no command has bound, and nobody holds the builder
C16_Witness ==
    /\ last.op = "draw_indexed" /\ last.res = "SyncCommandBufferBuilderError"
    /\ calls = 2 /\ phase = "Dropped"
    /\ is_some(state_cacher.index_buffer) /\ is_none(LastBoundIndex(inner))
    /\ is_some(subpasses_remaining)

\* ---------------------------------------------------------------- C18
\* the contents of the last begin-pass or next-subpass command of the log
CurrentContents(log) ==
    LET b == LastIndex(log, "begin_render_pass")
        n == LastIndex(log, "next_subpass") IN
    log[IF b > n THEN b ELSE n].contents

\* C18: a successful begin_render_pass of a framebuffer with k >= 1 subpasses
\* leaves subpasses_remaining = Some(k - 1) and the subpass kind of its
\* `secondary`; next_subpass(secondary) called with n >= 1 subpasses remaining
\* succeeds whatever the kind was, and leaves Some(n - 1) and the kind of its
\* `secondary`; a draw inside a render pass is refused with WrongSubpassType
\* exactly when the last successful begin_render_pass or next_subpass asked for
\* secondary command buffers, and otherwise returns no context error.
C18_Step ==
    /\ (/\ last'.op = "begin_render_pass" /\ last'.res = "Ok"
        /\ last'.args.num_subpasses >= 1) =>
          /\ subpasses_remaining' = Some(last'.args.num_subpasses - 1)
          /\ subpass_secondary' = last'.args.secondary
    /\ (/\ last'.op = "next_subpass" /\ ~secondary_cb
        /\ is_some(subpasses_remaining) /\ subpasses_remaining # Some(0)) =>
          /\ last'.res = "Ok"
          /\ subpasses_remaining' = Some(unwrap(subpasses_remaining) - 1)
          /\ subpass_secondary' = last'.args.secondary
    /\ (last'.op \in DrawOps /\ InPass(inner)) =>
          IF CurrentContents(inner) = "Inline"
          THEN last'.res \notin ContextErrors
          ELSE last'.res = "WrongSubpassType"

C18_SubpassKind == [][C18_Step]_vars

\* a draw has succeeded after begin_render_pass(secondary = true) and
\* next_subpass(secondary = false)
C18_Witness ==
    /\ last.op = "draw" /\ last.res = "Ok"
    /\ Len(PreLog) = 2
    /\ PreLog[1].cmd = "begin_render_pass"
    /\ PreLog[1].contents = "SecondaryCommandBuffers"
    /\ PreLog[2].cmd = "next_subpass" /\ PreLog[2].contents = "Inline"

\* ---------------------------------------------------------------- C19
\* one slot of the cache over one call: it changes exactly in a call that emits
\* one command `c`, and then holds what the log last bound or set
SlotStep(before, after, c, logged) ==
    /\ (after # before) <=> (Count(Emitted', c) = 1)
    /\ Count(Emitted', c) <= 1
    /\ after = logged

\* the call is a draw_indexed whose bind-index-buffer command the inner builder
\* has refused: the cache holds the new index buffer, the log does not
IndexBindRefused ==
    /\ last'.op = "draw_indexed" /\ last'.res = "SyncCommandBufferBuilderError"
    /\ state_cacher'.index_buffer # state_cacher.index_buffer
    /\ Count(Emitted', "bind_index_buffer") = 0

\* the slots in which bind and set commands cannot be refused
C19_InfallibleSlots ==
    /\ SlotStep(state_cacher.graphics_pipeline, state_cacher'.graphics_pipeline,
                "bind_pipeline_graphics",
                LastBoundPipeline(inner', "bind_pipeline_graphics"))
    /\ SlotStep(state_cacher.compute_pipeline, state_cacher'.compute_pipeline,
                "bind_pipeline_compute",
                LastBoundPipeline(inner', "bind_pipeline_compute"))
    /\ SlotStep(state_cacher.dynamic_state.line_width,
                state_cacher'.dynamic_state.line_width,
                "set_line_width", LastSet(inner', "set_line_width"))
    /\ SlotStep(state_cacher.dynamic_state.viewports,
                state_cacher'.dynamic_state.viewports,
                "set_viewport", LastSet(inner', "set_viewport"))
    /\ SlotStep(state_cacher.dynamic_state.scissors,
                state_cacher'.dynamic_state.scissors,
                "set_scissor", LastSet(inner', "set_scissor"))

C19_IndexSlot ==
    SlotStep(state_cacher.index_buffer, state_cacher'.index_buffer,
             "bind_index_buffer", LastBoundIndex(inner'))

\* C19 as stated: in every call each slot of the state cache (graphics pipeline,
\* compute pipeline, index buffer, the three dynamic-state fields) changes
\* exactly when the call emits the slot's bind or set command, so after every
\* call the cache holds what the log last bound and set.
C19_EveryCallStep == C19_InfallibleSlots /\ C19_IndexSlot

C19_EveryCall == [][C19_EveryCallStep]_vars

\* C19, amended: the same, except in a draw_indexed call whose bind-index-buffer
\* command the inner builder refuses: that call returns the error with the index
\* buffer cached and not emitted.  In every call that returns Ok each slot
\* changes exactly when its command is emitted, and after it the cache holds
\* what the log last bound and set.
C19_Step ==
    /\ C19_InfallibleSlots
    /\ C19_IndexSlot \/ IndexBindRefused
    /\ last'.res = "Ok" => (C19_IndexSlot /\ CacheAgrees')

C19_CacheAndLog == [][C19_Step]_vars

\* a draw_indexed has bound a second index buffer and set the line width, and
\* the cache holds both
C19_Witness ==
    /\ last.op = "draw_indexed" /\ last.res = "Ok"
    /\ Count(PreLog, "bind_index_buffer") = 1
    /\ Count(Emitted, "bind_index_buffer") = 1
    /\ Count(Emitted, "set_line_width") = 1
    /\ Count(Emitted, "bind_pipeline_graphics") = 0
    /\ state_cacher.index_buffer = Some(<<last.args.index_buffer, last.args.index_ty>>)
    /\ state_cacher.dynamic_state.line_width = last.args.dynamic.line_width

\* ---------------------------------------------------------------- C20
SetCmds == {"set_line_width", "set_viewport", "set_scissor"}

\* one dynamic-state field over the last call: a set command, of the requested
\* value, exactly when a value is requested that is not the one the log last
\* set; after the call the cache holds the requested value, or what it held
FieldSet(requested, cached, c) ==
    /\ Count(Emitted, c) =
          IF is_some(requested) /\ requested # LastSet(PreLog, c) THEN 1 ELSE 0
    /\ \A i \in Indices(Emitted, c) : Emitted[i].value = unwrap(requested)
    /\ cached = IF is_some(requested) THEN requested ELSE LastSet(PreLog, c)

C20_Fields ==
    (last.op \in DrawOps /\ last.res = "Ok") =>
        /\ FieldSet(last.args.dynamic.line_width,
                    state_cacher.dynamic_state.line_width, "set_line_width")
        /\ FieldSet(last.args.dynamic.viewports,
                    state_cacher.dynamic_state.viewports, "set_viewport")
        /\ FieldSet(last.args.dynamic.scissors,
                    state_cacher.dynamic_state.scissors, "set_scissor")

\* C20: a draw, draw_indexed or draw_indirect that returns Ok emits, for each of
\* line width, viewports and scissors, one set command of the requested value
\* exactly when a value is requested and it is not the value last set through
\* this builder, and the requested value is then the cached one; a draw made
\* right after a successful draw with the same dynamic state emits no set command.
C20_Step ==
    /\ C20_Fields'
    /\ (/\ last.op \in DrawOps /\ last.res = "Ok"
        /\ last'.op \in DrawOps /\ last'.res = "Ok"
        /\ last'.args.dynamic = last.args.dynamic) =>
          \A i \in 1 .. Len(Emitted') : Emitted'[i].cmd \notin SetCmds

C20_DynamicState == [][C20_Step]_vars

\* a draw has repeated the three values of the draw before it and has set none;
\* the draw before it had set the three
C20_Witness ==
    /\ last.op = "draw" /\ last.res = "Ok"
    /\ last.args.dynamic =
          [line_width |-> Some("a"), viewports |-> Some("b"), scissors |-> Some("a")]
    /\ \A i \in 1 .. Len(Emitted) : Emitted[i].cmd \notin SetCmds
    /\ \A c \in SetCmds : Count(PreLog, c) = 1
    /\ state_cacher.dynamic_state = last.args.dynamic

\* ---------------------------------------------------------------- C21
\* the number of push-constant ranges of each pipeline
RangesOf(p) == IF p = "p1" THEN 0 ELSE 2

\* C21: a dispatch that returns Ok has emitted one push-constants command per
\* push-constant range of its pipeline and one descriptor-sets bind; a draw,
\* draw_indexed or draw_indirect that returns Ok has emitted these and one
\* vertex-buffers bind; this whatever the call before was; the last command of
\* the call is its dispatch or draw command, and it is the only one.
C21_AlwaysEmitted ==
    (last.op \in DrawOps \cup {"dispatch"} /\ last.res = "Ok") =>
        /\ Count(Emitted, "push_constants") = RangesOf(last.args.pipeline)
        /\ \A i \in Indices(Emitted, "push_constants") :
              Emitted[i].pipeline = last.args.pipeline
        /\ Count(Emitted, "bind_descriptor_sets") = 1
        /\ \A i \in Indices(Emitted, "bind_descriptor_sets") :
              /\ Emitted[i].pipeline = last.args.pipeline
              /\ Emitted[i].gfx = (last.op \in DrawOps)
        /\ Count(Emitted, "bind_vertex_buffers") = IF last.op \in DrawOps THEN 1 ELSE 0
        /\ Emitted[Len(Emitted)].cmd = last.op
        /\ Cardinality({i \in 1 .. Len(Emitted) :
                           Emitted[i].cmd \in DrawCmds \cup {"dispatch"}}) = 1

\* a draw_indexed of the pipeline, index buffer and index type of the one before
\* it has bound nothing from the cache and has emitted its two push constants,
\* its descriptor sets, its vertex buffers and the draw
C21_Witness ==
    /\ last.op = "draw_indexed" /\ last.res = "Ok" /\ last.args.pipeline = "p2"
    /\ Count(PreLog, "draw_indexed") = 1
    /\ LastBoundPipeline(PreLog, "bind_pipeline_graphics") = Some("p2")
    /\ LastBoundIndex(PreLog) = Some(<<last.args.index_buffer, last.args.index_ty>>)
    /\ Len(Emitted) = 5
    /\ Count(Emitted, "push_constants") = 2

\* ---------------------------------------------------------------- C22
\* every error of the validity checks
CheckErrors ==
    (ClearChecks \cup CopyBufferChecks \cup FillBufferChecks \cup UpdateBufferChecks
        \cup DispatchChecks \cup DrawIndexedChecks) \ {"Ok"}

\* the builder is not in the render-pass context the operation requires
ContextWrong(op) ==
    IF op \in {"build", "begin_render_pass"}
    THEN secondary_cb \/ is_some(subpasses_remaining)
    ELSE IF op \in OutsideOps THEN is_some(subpasses_remaining)
    ELSE IF op \in DrawOps THEN is_none(subpasses_remaining) \/ subpass_secondary
    ELSE IF op = "end_render_pass" THEN secondary_cb \/ subpasses_remaining # Some(0)
    ELSE secondary_cb \/ is_none(subpasses_remaining) \/ subpasses_remaining = Some(0)

\* C22: a call made in the wrong render-pass context returns the context error
\* whatever its parameters are (also when they fail validation, are not a color
\* value, or count no subpass); a call rejected by a validity check, or by a
\* panic on a parameter, was made in the right context, has changed nothing in
\* the state cache and has emitted no command; a dispatch or draw that the inner
\* builder refuses has already passed validation and put its pipeline in the
\* cache.
C22_Step ==
    /\ ContextWrong(last'.op) => last'.res \in ContextErrors
    /\ last'.res \in CheckErrors \cup {"Panic"} =>
          /\ ~ContextWrong(last'.op)
          /\ state_cacher' = state_cacher
          /\ inner' = inner
    /\ (/\ last'.res = "SyncCommandBufferBuilderError"
        /\ last'.op \in DrawOps \cup {"dispatch"}) =>
          /\ ~ContextWrong(last'.op)
          /\ Some(last'.args.pipeline) =
                IF last'.op = "dispatch" THEN state_cacher'.compute_pipeline
                ELSE state_cacher'.graphics_pipeline

C22_CheckOrder == [][C22_Step]_vars

\* a clear with a depth value, inside a render pass, was refused for the context
C22_Witness ==
    /\ last.op = "clear_color_image" /\ last.args.color = "Depth"
    /\ last.res = "ForbiddenInsideRenderPass"
    /\ is_some(subpasses_remaining) /\ Emitted = <<>>

\* ---------------------------------------------------------------- C23
\* C23: a begin_render_pass call with a framebuffer of no subpass returns no
\* builder: it does not return Ok, and leaves no subpasses_remaining that is the
\* wrapped value of 0 - 1.
C23_ZeroSubpasses ==
    (last.op = "begin_render_pass" /\ last.args.num_subpasses = 0) =>
        /\ last.res # "Ok"
        /\ phase # "Recording"
        /\ subpasses_remaining # Some(UsizeModulus - 1)

\* ---------------------------------------------------------------- C24
\* the commands of the transfer operations and of dispatch
OutsideCmds == {"clear_color_image", "copy_buffer", "copy_buffer_to_image",
                "fill_buffer", "update_buffer", "dispatch"}
Before(log, i) == SubSeq(log, 1, i - 1)

\* C24: in the commands emitted so far, every draw, draw-indexed and
\* draw-indirect command comes after a begin-pass command with no end-pass
\* command in between, in a subpass whose contents are Inline; every clear,
\* buffer copy, buffer-to-image copy, fill, update and dispatch command comes
\* where no render pass is open.
C24_Placement ==
    \A i \in 1 .. Len(inner) :
        /\ inner[i].cmd \in DrawCmds =>
              /\ InPass(Before(inner, i))
              /\ CurrentContents(Before(inner, i)) = "Inline"
        /\ inner[i].cmd \in OutsideCmds => ~InPass(Before(inner, i))

\* a copy, then a render pass that begins with secondary command buffers and
\* goes on inline, with a draw in its second subpass
C24_Witness ==
    /\ last.op = "draw" /\ last.res = "Ok" /\ Len(PreLog) = 3
    /\ PreLog[1].cmd = "copy_buffer"
    /\ PreLog[2].cmd = "begin_render_pass"
    /\ PreLog[2].contents = "SecondaryCommandBuffers"
    /\ PreLog[3].cmd = "next_subpass" /\ PreLog[3].contents = "Inline"

\* ---------------------------------------------------------------- C25
\* C25: a call that returns ForbiddenInSecondary, ForbiddenInsideRenderPass,
\* ForbiddenOutsideRenderPass, NumSubpassesMismatch or WrongSubpassType has
\* emitted no command and has changed neither subpasses_remaining, nor
\* subpass_secondary, nor anything in the state cache.
C25_Step ==
    last'.res \in {"ForbiddenInSecondary", "ForbiddenInsideRenderPass",
                   "ForbiddenOutsideRenderPass", "NumSubpassesMismatch",
                   "WrongSubpassType"} =>
        /\ inner' = inner
        /\ subpasses_remaining' = subpasses_remaining
        /\ subpass_secondary' = subpass_secondary
        /\ state_cacher' = state_cacher
        /\ secondary_cb' = secondary_cb

C25_ContextErrorNoEffect == [][C25_Step]_vars

\* next_subpass(secondary = true) was refused in the last subpass of an inline
\* pass: the pass is still open, still inline, with no subpass left
C25_Witness ==
    /\ last.op = "next_subpass" /\ last.args.secondary
    /\ last.res = "NumSubpassesMismatch"
    /\ subpasses_remaining = Some(0) /\ ~subpass_secondary
    /\ Len(inner) = 1 /\ Emitted = <<>>

\* ---------------------------------------------------------------- C26
TransferOps == ClearOps \cup CopyImageOps \cup {"copy_buffer", "fill_buffer",
                                                  "update_buffer"}
PassOps == {"begin_render_pass", "next_subpass", "end_render_pass"}

\* C26: begin_render_pass, next_subpass, end_render_pass, build and the clear,
\* copy, fill and update operations change nothing in the state cache; dispatch
\* changes neither the graphics pipeline, nor the index buffer, nor the dynamic
\* state of the cache; the draws do not change its compute pipeline; no call
\* changes secondary_cb.  So a successful dispatch or draw whose pipeline is the
\* one the builder last bound emits no bind, whatever render passes began or
\* ended since that bind.
C26_Step ==
    /\ last'.op \in PassOps \cup TransferOps \cup {"build"} =>
          state_cacher' = state_cacher
    /\ last'.op = "dispatch" =>
          /\ state_cacher'.graphics_pipeline = state_cacher.graphics_pipeline
          /\ state_cacher'.index_buffer = state_cacher.index_buffer
          /\ state_cacher'.dynamic_state = state_cacher.dynamic_state
    /\ last'.op \in DrawOps =>
          state_cacher'.compute_pipeline = state_cacher.compute_pipeline
    /\ secondary_cb' = secondary_cb
    /\ (/\ last'.op = "dispatch" /\ last'.res = "Ok"
        /\ LastBoundPipeline(inner, "bind_pipeline_compute")
              = Some(last'.args.pipeline)) =>
          Count(Emitted', "bind_pipeline_compute") = 0
    /\ (/\ last'.op \in DrawOps /\ last'.res = "Ok"
        /\ LastBoundPipeline(inner, "bind_pipeline_graphics")
              = Some(last'.args.pipeline)) =>
          Count(Emitted', "bind_pipeline_graphics") = 0

C26_CacheFrame == [][C26_Step]_vars

\* a dispatch, a whole render pass, and a dispatch of the same pipeline that has
\* not bound it again
C26_Witness ==
    /\ last.op = "dispatch" /\ last.res = "Ok"
    /\ Len(PreLog) >= 4
    /\ PreLog[Len(PreLog) - 1].cmd = "begin_render_pass"
    /\ PreLog[Len(PreLog)].cmd = "end_render_pass"
    /\ Count(PreLog, "bind_pipeline_compute") = 1
    /\ Count(Emitted, "bind_pipeline_compute") = 0

\* ---------------------------------------------------------------- C27
\* the place of a command in the commands of one dispatch or draw call
Rank(c) ==
    CASE c \in {"bind_pipeline_graphics", "bind_pipeline_compute"} -> 1
      [] c = "bind_index_buffer" -> 2
      [] c = "push_constants" -> 3
      [] c \in SetCmds -> 4
      [] c = "bind_descriptor_sets" -> 5
      [] c = "bind_vertex_buffers" -> 6
      [] c \in DrawCmds \cup {"dispatch"} -> 7
      [] OTHER -> 0

\* C27: the commands of a draw, draw_indexed or draw_indirect that returns Ok
\* come in the order: bind graphics pipeline, bind index buffer (draw_indexed
\* only), push constants, dynamic-state set commands, descriptor sets, vertex
\* buffers, and last the draw command; those of a dispatch that returns Ok in the
\* order: bind compute pipeline, push constants, descriptor sets, dispatch.
C27_EmissionOrder ==
    (last.op \in DrawOps \cup {"dispatch"} /\ last.res = "Ok") =>
        /\ \A i \in 1 .. Len(Emitted) : Rank(Emitted[i].cmd) > 0
        /\ \A i \in 1 .. Len(Emitted), j \in 1 .. Len(Emitted) :
              i < j => Rank(Emitted[i].cmd) <= Rank(Emitted[j].cmd)
        /\ \A i \in 1 .. Len(Emitted) :
              Rank(Emitted[i].cmd) = 7 <=> i = Len(Emitted)
        /\ Emitted[Len(Emitted)].cmd = last.op
        /\ last.op # "draw_indexed" => Count(Emitted, "bind_index_buffer") = 0
        /\ Count(Emitted, "bind_pipeline_compute") > 0 => last.op = "dispatch"
        /\ Count(Emitted, "bind_pipeline_graphics") > 0 => last.op \in DrawOps
        /\ last.op = "dispatch" =>
              \A i \in 1 .. Len(Emitted) : Rank(Emitted[i].cmd) \in {1, 3, 5, 7}

\* the first draw_indexed of a builder, of a pipeline with two push-constant
\* ranges and with the three dynamic-state values set: ten commands, in order
C27_Witness ==
    /\ last.op = "draw_indexed" /\ last.res = "Ok" /\ Len(Emitted) = 10
    /\ Emitted[1].cmd = "bind_pipeline_graphics"
    /\ Emitted[2].cmd = "bind_index_buffer"
    /\ Emitted[3].cmd = "push_constants" /\ Emitted[4].cmd = "push_constants"
    /\ Emitted[5].cmd = "set_line_width" /\ Emitted[7].cmd = "set_scissor"
    /\ Emitted[8].cmd = "bind_descriptor_sets"
    /\ Emitted[9].cmd = "bind_vertex_buffers"
    /\ Emitted[10].cmd = "draw_indexed"
====
